---- MODULE Spec2Model ----
(***************************************************************************)
(* EchoNote: the Main Capture Screen (App), the History Screen             *)
(* (HistoryPage) and the Signup Page (SignupPage) as state machines.       *)
(* Every React state hook is a variable,                                   *)
(* every event handler is an action, and every `await` splits a handler    *)
(* into the step before the request and the step that runs when the        *)
(* request settles; the handler's closure (the values of the render it was *)
(* created in) travels with the request in flight.                         *)
(*                                                                         *)
(* Text the code trims, measures or concatenates (transcript, custom       *)
(* prompt, API key, request body, credentials) is a sequence of            *)
(* characters.  Text the code only                                         *)
(* stores, shows and tests for emptiness (messages, generated text) is a   *)
(* string.  An optional value is a sequence of length 0 or 1.              *)
(***************************************************************************)
EXTENDS Integers, Sequences, FiniteSets, TLC

VARIABLES
    \* ---- Main Capture Screen: React state (App, lines 33-41)
    isListening,      \* useState(false)
    transcript,       \* useState('')
    geminiResponse,   \* useState('')
    isProcessing,     \* useState(false)
    error,            \* useState('')
    copied,           \* useState(false)
    geminiApiKey,     \* useState('')
    customPrompt,     \* useState('')
    hasRecognition,   \* recognitionRef.current is not null
    \* ---- Main Capture Screen: environment
    recState,         \* the platform recognizer: "idle", "active", "stopping", ...
    event,            \* the recognition result event delivered last, if any
    request,          \* the generation request in flight, if any
    pendingInsert,    \* the store insert in flight, if any
    genCalls,         \* generation requests issued so far
    insertCalls,      \* store inserts issued so far
    pendingWrite,     \* clipboard writes in flight (Main Capture Screen)
    timers,           \* due times of the pending setCopied(false) timeouts
    \* ---- History Screen: React state (HistoryPage, lines 18-22)
    records,          \* useState([])
    isLoading,        \* useState(true)
    historyError,     \* useState('')   (HistoryPage's `error`)
    historyCopied,    \* useState(null) (HistoryPage's `copied`)
    selectedRecord,   \* useState(null)
    \* ---- History Screen: environment
    store,            \* the rows of speech_records, newest first
    fetchPending,     \* the select of fetchRecords is in flight
    pendingDeletes,   \* deletes in flight, each with its handler's closure
    historyWrites,    \* clipboard writes in flight (History Screen)
    historyTimers,    \* due times of the pending setCopied(null) timeouts
    \* ---- Signup Page: React state (SignupPage, lines 10-15)
    email,            \* useState('')
    password,         \* useState('')
    confirmPassword,  \* useState('')
    signupError,      \* useState('')   (SignupPage's `error`)
    success,          \* useState('')
    signupLoading,    \* useState(false) (SignupPage's `isLoading`)
    \* ---- Signup Page: environment
    signUpPending,    \* the signUp call in flight, if any, with its arguments
    signUpCalls,      \* signUp calls issued so far
    switchTimers,     \* pending timeouts of onSwitchToLogin
    \* ---- shared environment
    clipboard,        \* what the system clipboard holds
    copyLog,          \* the last successful copies: key and time of each
    now,              \* the clock, in ms
    lastOp            \* the handler or callback that ran last

mainVars == <<isListening, transcript, geminiResponse, isProcessing, error, copied,
              geminiApiKey, customPrompt, hasRecognition, recState, event, request,
              pendingInsert, genCalls, insertCalls, pendingWrite, timers>>

historyVars == <<records, isLoading, historyError, historyCopied, selectedRecord,
                 store, fetchPending, pendingDeletes, historyWrites, historyTimers>>

signupVars == <<email, password, confirmPassword, signupError, success,
                signupLoading, signUpPending, signUpCalls, switchTimers>>

vars == <<mainVars, historyVars, signupVars, clipboard, copyLog, now, lastOp>>

----------------------------------------------------------------------------
(* Bounds of the model *)

\* The transcript never grows beyond MaxLen characters.
MaxLen == 4
\* A recognition event carries at most MaxResults result entries.
MaxResults == 2
\* At most MaxAnalyses generation requests are issued in one run.
MaxAnalyses == 2
\* The store holds at most MaxRecords records when the History Screen mounts.
MaxRecords == 3
\* At most MaxDeletes deletes are in flight at a time.
MaxDeletes == 2
\* At most MaxWrites clipboard writes are in flight at a time.
MaxWrites == 1
\* The clock stops at MaxTime ms.
MaxTime == 4000
\* At most MaxSignUps signUp calls are issued in a run.
MaxSignUps == 2

----------------------------------------------------------------------------
(* Text *)

Whitespace == {" ", "\n"}

RECURSIVE TrimStart(_)
TrimStart(s) ==
    IF s # <<>> /\ Head(s) \in Whitespace THEN TrimStart(Tail(s)) ELSE s

RECURSIVE TrimEnd(_)
TrimEnd(s) ==
    IF s # <<>> /\ s[Len(s)] \in Whitespace THEN TrimEnd(SubSeq(s, 1, Len(s) - 1)) ELSE s

\* String.prototype.trim
Trim(s) == TrimEnd(TrimStart(s))

\* !s.trim(): the trimmed text is the empty string, which is falsy
IsBlank(s) == Trim(s) = <<>>

----------------------------------------------------------------------------
(* Messages *)

NotSupportedMessage == "Speech recognition is not supported in this browser."
RecordFirstMessage == "Please record some speech first"
EnterKeyMessage == "Please enter your Gemini API key"
GenericGeminiMessage == "Failed to process with Gemini API"
AnErrorOccurred == "An error occurred"
NoResponseGenerated == "No response generated"
CopyFailedMessage == "Failed to copy to clipboard"

\* `Speech recognition error: ${event.error}`
SpeechErrorMessage(code) == "Speech recognition error: " \o code

\* The instruction sent when no custom prompt is given, up to its colon.
DefaultInstruction ==
    "Please analyze and improve the following text. Provide a summary, correct any grammar issues, and suggest improvements:"

----------------------------------------------------------------------------
(* Speech Capture Adapter *)

\* One iteration of the loop of onresult: what entry `result` adds to
\* finalTranscript.  result.alts[1] is result[0].transcript, the top candidate.
EntryTextAnyway(result) == result.alts[1] \o <<" ">>

EntryText(result) ==
    IF result.isFinal THEN result.alts[1] \o <<" ">> ELSE <<>>

\* for (let i = event.resultIndex; i < event.results.length; i++), with
\* finalTranscript as the accumulator; i counts from 0 as in the code.
RECURSIVE ScanResults(_, _, _)
ScanResults(results, i, finalTranscript) ==
    IF i < Len(results)
    THEN ScanResults(results, i + 1, finalTranscript \o EntryText(results[i + 1]))
    ELSE finalTranscript

\* The platform recognizer (SpeechRecognition of the Web Speech API), as far as
\* the handlers can tell its states apart:
\*   "idle"               no session;
\*   "active"             a session is capturing;
\*   "stopping"           stop() was called, the end event is still to come;
\*   "failed"             the error event has fired, the end event is still to
\*                        come;
\*   "restarted"          start() was called after the error event: a new
\*                        session is capturing and the end event of the failed
\*                        one is still to come;
\*   "restartedStopping"  stop() was called on that new session.
\* start() throws InvalidStateError on a started recognizer on which neither
\* the error nor the end event has fired; stop() on a recognizer that is not
\* capturing is ignored.
PlatformCapturing == recState \in {"active", "restarted"}

EndEventPending ==
    recState \in {"stopping", "failed", "restarted", "restartedStopping"}

StartAccepted == recState \in {"idle", "failed"}

AfterStart == IF recState = "failed" THEN "restarted" ELSE "active"

AfterStop ==
    CASE recState = "active" -> "stopping"
      [] recState = "restarted" -> "restartedStopping"
      [] OTHER -> recState

AfterEnd ==
    CASE recState = "restarted" -> "active"
      [] recState = "restartedStopping" -> "stopping"
      [] OTHER -> "idle"

\* recognitionRef.current.onresult
OnResult(e) ==
    /\ hasRecognition
    /\ recState \in {"active", "stopping", "restarted", "restartedStopping"}
    /\ LET finalTranscript == ScanResults(e.results, e.resultIndex, <<>>)
       IN /\ Len(transcript) + Len(finalTranscript) <= MaxLen
          /\ transcript' = IF finalTranscript # <<>>
                           THEN transcript \o finalTranscript
                           ELSE transcript
    /\ event' = <<e>>
    /\ lastOp' = "onresult"
    /\ UNCHANGED <<isListening, geminiResponse, isProcessing, error, copied,
                   geminiApiKey, customPrompt, hasRecognition, recState, request,
                   pendingInsert, genCalls, insertCalls, pendingWrite, timers>>
    /\ UNCHANGED <<signupVars, historyVars, clipboard, copyLog, now>>

\* What onerror does to the listening flag: setIsListening(false).
ListeningKeptOnError == isListening

ListeningAfterError == FALSE

\* recognitionRef.current.onerror; the platform ends the session after an error,
\* so its end event is still to come.
OnError(code) ==
    /\ hasRecognition
    /\ recState = "active"
    /\ error' = SpeechErrorMessage(code)
    /\ isListening' = ListeningAfterError
    /\ recState' = "failed"
    /\ lastOp' = "onerror"
    /\ UNCHANGED <<transcript, geminiResponse, isProcessing, copied, geminiApiKey,
                   customPrompt, hasRecognition, event, request, pendingInsert,
                   genCalls, insertCalls, pendingWrite, timers>>
    /\ UNCHANGED <<signupVars, historyVars, clipboard, copyLog, now>>

\* recognitionRef.current.onend: the end of a session the user stopped, of one
\* that failed, or of one the platform ended by itself.
OnEnd ==
    /\ hasRecognition
    /\ recState # "idle"
    /\ isListening' = FALSE
    /\ recState' = AfterEnd
    /\ lastOp' = "onend"
    /\ UNCHANGED <<transcript, geminiResponse, isProcessing, error, copied,
                   geminiApiKey, customPrompt, hasRecognition, event, request,
                   pendingInsert, genCalls, insertCalls, pendingWrite, timers>>
    /\ UNCHANGED <<signupVars, historyVars, clipboard, copyLog, now>>

\* toggleListening.  A start() that throws leaves the handler after
\* setError('').
ToggleListening ==
    /\ lastOp' = "toggle"
    /\ IF ~hasRecognition
       THEN UNCHANGED <<isListening, error, recState>>
       ELSE IF isListening
       THEN /\ recState' = AfterStop
            /\ isListening' = FALSE
            /\ UNCHANGED error
       ELSE /\ error' = ""
            /\ IF StartAccepted
               THEN recState' = AfterStart /\ isListening' = TRUE
               ELSE UNCHANGED <<recState, isListening>>
    /\ UNCHANGED <<transcript, geminiResponse, isProcessing, copied, geminiApiKey,
                   customPrompt, hasRecognition, event, request, pendingInsert,
                   genCalls, insertCalls, pendingWrite, timers>>
    /\ UNCHANGED <<signupVars, historyVars, clipboard, copyLog, now>>

----------------------------------------------------------------------------
(* Main Capture Screen: the text fields *)

\* <textarea value={transcript} onChange=...>
EditTranscript(v) ==
    /\ v # transcript
    /\ transcript' = v
    /\ lastOp' = "editTranscript"
    /\ UNCHANGED <<isListening, geminiResponse, isProcessing, error, copied,
                   geminiApiKey, customPrompt, hasRecognition, recState, event,
                   request, pendingInsert, genCalls, insertCalls, pendingWrite, timers>>
    /\ UNCHANGED <<signupVars, historyVars, clipboard, copyLog, now>>

\* <textarea value={customPrompt} onChange=...>
EditCustomPrompt(v) ==
    /\ v # customPrompt
    /\ customPrompt' = v
    /\ lastOp' = "editPrompt"
    /\ UNCHANGED <<isListening, transcript, geminiResponse, isProcessing, error,
                   copied, geminiApiKey, hasRecognition, recState, event, request,
                   pendingInsert, genCalls, insertCalls, pendingWrite, timers>>
    /\ UNCHANGED <<signupVars, historyVars, clipboard, copyLog, now>>

\* <input value={geminiApiKey} onChange=...>
EditApiKey(v) ==
    /\ v # geminiApiKey
    /\ geminiApiKey' = v
    /\ lastOp' = "editKey"
    /\ UNCHANGED <<isListening, transcript, geminiResponse, isProcessing, error,
                   copied, customPrompt, hasRecognition, recState, event, request,
                   pendingInsert, genCalls, insertCalls, pendingWrite, timers>>
    /\ UNCHANGED <<signupVars, historyVars, clipboard, copyLog, now>>

\* clearAll, had it also stopped the capture
ClearAllAndStop ==
    /\ transcript' = <<>>
    /\ geminiResponse' = ""
    /\ error' = ""
    /\ copied' = FALSE
    /\ customPrompt' = <<>>
    /\ isListening' = FALSE
    /\ recState' = AfterStop
    /\ lastOp' = "clear"
    /\ UNCHANGED <<isProcessing, geminiApiKey, hasRecognition, event, request,
                   pendingInsert, genCalls, insertCalls, pendingWrite, timers>>
    /\ UNCHANGED <<signupVars, historyVars, clipboard, copyLog, now>>

\* clearAll
ClearAll ==
    /\ transcript' = <<>>
    /\ geminiResponse' = ""
    /\ error' = ""
    /\ copied' = FALSE
    /\ customPrompt' = <<>>
    /\ lastOp' = "clear"
    /\ UNCHANGED <<isListening, isProcessing, geminiApiKey, hasRecognition, recState,
                   event, request, pendingInsert, genCalls, insertCalls, pendingWrite,
                   timers>>
    /\ UNCHANGED <<signupVars, historyVars, clipboard, copyLog, now>>

----------------------------------------------------------------------------
(* Text-Generation Client and the Analyze action *)

\* disabled={isProcessing || !transcript.trim()} of the Analyze button
AnalyzeDisabledWhileProcessing == isProcessing

AnalyzeDisabledOnBlank == IsBlank(transcript)

AnalyzeDisabled == isProcessing \/ IsBlank(transcript)

\* The text block of the request body: the template literals of lines 124-126.
RequestTextUntrimmedTest(prompt, text) ==
    IF prompt # <<>>
    THEN prompt \o <<"\n", "\n">> \o text
    ELSE <<DefaultInstruction, "\n", "\n">> \o text

RequestText(prompt, text) ==
    IF ~IsBlank(prompt)
    THEN prompt \o <<"\n", "\n">> \o text
    ELSE <<DefaultInstruction, "\n", "\n">> \o text

\* A thrown value: an Error with its message, or something that is no Error.
ErrorOf(message) == [isError |-> TRUE, message |-> message]

\* What fetch rejects with when the transport fails.
FetchTypeError == ErrorOf("Failed to fetch")
\* What response.json() throws when the body is not JSON.
JsonSyntaxError == ErrorOf("Unexpected token < in JSON")

\* errorData.error?.message || 'Failed to process with Gemini API'
\* (body: the message of the error envelope, if the envelope has one)
StatusErrorMessageNullish(body) ==
    IF body = <<>> THEN GenericGeminiMessage ELSE body[1]

StatusErrorMessage(body) ==
    IF body = <<>> \/ body[1] = "" THEN GenericGeminiMessage ELSE body[1]

\* data.candidates?.[0]?.content?.parts?.[0]?.text || 'No response generated'
\* (body: the text of the first part of the first candidate, if present)
GeneratedTextNullish(body) ==
    IF body = <<>> THEN NoResponseGenerated ELSE body[1]

GeneratedText(body) ==
    IF body = <<>> \/ body[1] = "" THEN NoResponseGenerated ELSE body[1]

\* err instanceof Error ? err.message : 'An error occurred'
CaughtMessage(thrown) ==
    IF thrown.isError THEN thrown.message ELSE AnErrorOccurred

\* What the try block of processWithGemini throws for outcome o of the
\* generation call, if it throws.
GenerationThrown(o) ==
    CASE o.kind = "reject" -> <<FetchTypeError>>
      [] o.kind = "status" -> <<ErrorOf(StatusErrorMessage(o.body))>>
      [] o.kind = "status_badjson" -> <<JsonSyntaxError>>
      [] o.kind = "ok_badjson" -> <<JsonSyntaxError>>
      [] o.kind = "ok" -> <<>>

\* The record handed to insert: the handler's own `transcript` (the value of
\* the render the click happened in) and the generated text.
InsertPayloadLive(req, generatedText) ==
    [transcript |-> transcript, gemini_response |-> generatedText]

InsertPayload(req, generatedText) ==
    [transcript |-> req.transcript, gemini_response |-> generatedText]

\* processWithGemini up to its fetch
ProcessWithGemini ==
    IF IsBlank(transcript)
    THEN /\ error' = RecordFirstMessage
         /\ UNCHANGED <<isProcessing, geminiResponse, request, genCalls>>
    ELSE IF IsBlank(geminiApiKey)
    THEN /\ error' = EnterKeyMessage
         /\ UNCHANGED <<isProcessing, geminiResponse, request, genCalls>>
    ELSE /\ isProcessing' = TRUE
         /\ error' = ""
         /\ geminiResponse' = ""
         /\ request' = << [text |-> RequestText(customPrompt, transcript),
                           transcript |-> transcript,
                           key |-> geminiApiKey] >>
         /\ genCalls' = genCalls + 1

\* A click on the Analyze button: a disabled button dispatches no click.
AnalyzeClick ==
    /\ genCalls < MaxAnalyses
    /\ lastOp' = "analyze"
    /\ IF AnalyzeDisabled
       THEN UNCHANGED <<isProcessing, error, geminiResponse, request, genCalls>>
       ELSE ProcessWithGemini
    /\ UNCHANGED <<isListening, transcript, copied, geminiApiKey, customPrompt,
                   hasRecognition, recState, event, pendingInsert, insertCalls,
                   pendingWrite, timers>>
    /\ UNCHANGED <<signupVars, historyVars, clipboard, copyLog, now>>

\* processWithGemini from the settling of fetch to the insert (or to the catch
\* and finally blocks when the call failed)
GenerationResponds(o) ==
    /\ request # <<>>
    /\ request' = <<>>
    /\ IF GenerationThrown(o) # <<>>
       THEN /\ lastOp' = "generationFailed"
            /\ error' = CaughtMessage(GenerationThrown(o)[1])
            /\ isProcessing' = FALSE
            /\ UNCHANGED <<geminiResponse, pendingInsert, insertCalls>>
       ELSE /\ lastOp' = "generationSucceeded"
            /\ geminiResponse' = GeneratedText(o.body)
            /\ pendingInsert' = <<InsertPayload(request[1], GeneratedText(o.body))>>
            /\ insertCalls' = insertCalls + 1
            /\ UNCHANGED <<error, isProcessing>>
    /\ UNCHANGED <<isListening, transcript, copied, geminiApiKey, customPrompt,
                   hasRecognition, recState, event, genCalls, pendingWrite, timers>>
    /\ UNCHANGED <<signupVars, historyVars, clipboard, copyLog, now>>

\* processWithGemini from the settling of the insert: the store client resolves
\* with { error: null } ("ok"), resolves with { error } ("error"), or rejects
\* ("reject").  The resolved value is not read.
InsertResponds(o) ==
    /\ pendingInsert # <<>>
    /\ pendingInsert' = <<>>
    /\ lastOp' = IF o = "ok" THEN "insertSucceeded" ELSE "insertFailed"
    /\ error' = IF o = "reject" THEN CaughtMessage(FetchTypeError) ELSE error
    /\ isProcessing' = FALSE
    /\ UNCHANGED <<isListening, transcript, geminiResponse, copied, geminiApiKey,
                   customPrompt, hasRecognition, recState, event, request, genCalls,
                   insertCalls, pendingWrite, timers>>
    /\ UNCHANGED <<signupVars, historyVars, clipboard, copyLog, now>>

----------------------------------------------------------------------------
(* Clipboard, clock and timers *)

\* The delay of setTimeout(() => setCopied(...), 2000), in ms.
CopiedTimeout == 2000

\* The log of successful copies after one of `key` now: the last copy of
\* another key, if there was one, and this copy.
LogCopy(key) ==
    LET others == SelectSeq(copyLog, LAMBDA c : c.key # key)
    IN  (IF others = <<>> THEN <<>> ELSE <<others[Len(others)]>>)
           \o <<[key |-> key, at |-> now]>>

\* The clock advances by one second, unless a timeout is due: a due timeout
\* runs before time passes.
Tick ==
    /\ now + 1000 <= MaxTime
    /\ \A t \in timers \cup historyTimers : t > now
    /\ now' = now + 1000
    /\ lastOp' = "tick"
    /\ UNCHANGED <<signupVars, mainVars, historyVars, clipboard, copyLog>>

\* copyToClipboard of the Main Capture Screen up to its await; the button is
\* rendered only while a response is displayed.
CopyClick ==
    /\ geminiResponse # ""
    /\ Len(pendingWrite) < MaxWrites
    /\ pendingWrite' = Append(pendingWrite, geminiResponse)
    /\ lastOp' = "copyClick"
    /\ UNCHANGED <<isListening, transcript, geminiResponse, isProcessing, error,
                   copied, geminiApiKey, customPrompt, hasRecognition, recState,
                   event, request, pendingInsert, genCalls, insertCalls, timers>>
    /\ UNCHANGED <<signupVars, historyVars, clipboard, copyLog, now>>

\* copyToClipboard of the Main Capture Screen from the settling of writeText
CopyWriteDone(ok) ==
    /\ pendingWrite # <<>>
    /\ pendingWrite' = Tail(pendingWrite)
    /\ IF ok
       THEN /\ clipboard' = <<Head(pendingWrite)>>
            /\ copied' = TRUE
            /\ timers' = timers \cup {now + CopiedTimeout}
            /\ copyLog' = LogCopy("response")
            /\ lastOp' = "copied"
            /\ UNCHANGED error
       ELSE /\ error' = CopyFailedMessage
            /\ lastOp' = "copyFailed"
            /\ UNCHANGED <<clipboard, copied, timers, copyLog>>
    /\ UNCHANGED <<isListening, transcript, geminiResponse, isProcessing,
                   geminiApiKey, customPrompt, hasRecognition, recState, event,
                   request, pendingInsert, genCalls, insertCalls>>
    /\ UNCHANGED <<signupVars, historyVars, now>>

\* () => setCopied(false), run by a timeout that is due
CopiedTimeoutFires ==
    /\ \E t \in timers :
          /\ t <= now
          /\ timers' = timers \ {t}
    /\ copied' = FALSE
    /\ lastOp' = "copiedTimeout"
    /\ UNCHANGED <<isListening, transcript, geminiResponse, isProcessing, error,
                   geminiApiKey, customPrompt, hasRecognition, recState, event,
                   request, pendingInsert, genCalls, insertCalls, pendingWrite>>
    /\ UNCHANGED <<signupVars, historyVars, clipboard, copyLog, now>>

----------------------------------------------------------------------------
(* History Screen *)

\* A record is known by its id; its texts follow from the id.
RecordText(kind, id) == <<kind, id>>

\* `transcript-${id}` and `response-${id}`
CopyKey(kind, id) == <<kind, id>>

\* records.filter(r => r.id !== id)
WithoutId(rs, id) == SelectSeq(rs, LAMBDA r : r # id)

\* What the catch blocks of the History Screen make of a store error: the
\* error's message when the client's error object is an Error, the handler's
\* own message otherwise.
StoreErrorMessage(isError, fallback) ==
    IF isError THEN "permission denied for table speech_records" ELSE fallback

\* fetchRecords from the settling of its select: rows ("rows"), no rows at
\* all ("null"), or an error, which is an Error object or is none.
FetchResponds(o) ==
    /\ fetchPending
    /\ fetchPending' = FALSE
    /\ isLoading' = FALSE
    /\ CASE o.kind = "rows" ->
              /\ records' = store
              /\ lastOp' = "fetched"
              /\ UNCHANGED historyError
         [] o.kind = "null" ->
              /\ records' = <<>>
              /\ lastOp' = "fetched"
              /\ UNCHANGED historyError
         [] o.kind = "error" ->
              /\ historyError' = StoreErrorMessage(o.isError, "Failed to load history")
              /\ lastOp' = "fetchFailed"
              /\ UNCHANGED records
    /\ UNCHANGED <<historyCopied, selectedRecord, store, pendingDeletes,
                   historyWrites, historyTimers>>
    /\ UNCHANGED <<signupVars, mainVars, clipboard, copyLog, now>>

\* The list is rendered: no detail view, not loading, some record.
ListShown == selectedRecord = <<>> /\ ~isLoading /\ records # <<>>

\* onClick={() => setSelectedRecord(record)} of a row of the list
SelectRecord(id) ==
    /\ ListShown
    /\ \E i \in 1..Len(records) : records[i] = id
    /\ selectedRecord' = <<id>>
    /\ lastOp' = "select"
    /\ UNCHANGED <<records, isLoading, historyError, historyCopied, store,
                   fetchPending, pendingDeletes, historyWrites, historyTimers>>
    /\ UNCHANGED <<signupVars, mainVars, clipboard, copyLog, now>>

\* onClick={() => setSelectedRecord(null)} of "Back to History"
BackToList ==
    /\ selectedRecord # <<>>
    /\ selectedRecord' = <<>>
    /\ lastOp' = "back"
    /\ UNCHANGED <<records, isLoading, historyError, historyCopied, store,
                   fetchPending, pendingDeletes, historyWrites, historyTimers>>
    /\ UNCHANGED <<signupVars, mainVars, clipboard, copyLog, now>>

\* deleteRecord up to its await, from the delete button of a row of the list
\* or of the detail view.  The handler keeps the `records` and the
\* `selectedRecord` of the render it was created in.  (The runs do not click
\* on a record whose delete is still in flight.)
DeleteClick(id) ==
    /\ \/ ListShown /\ \E i \in 1..Len(records) : records[i] = id
       \/ selectedRecord = <<id>>
    /\ Cardinality(pendingDeletes) < MaxDeletes
    /\ \A d \in pendingDeletes : d.id # id
    /\ pendingDeletes' = pendingDeletes \cup
          { [id |-> id, records |-> records, selectedRecord |-> selectedRecord] }
    /\ lastOp' = "deleteClick"
    /\ UNCHANGED <<records, isLoading, historyError, historyCopied, selectedRecord,
                   store, fetchPending, historyWrites, historyTimers>>
    /\ UNCHANGED <<signupVars, mainVars, clipboard, copyLog, now>>

\* setRecords(records.filter(...)) of deleteRecord, with the handler's records
RecordsAfterDelete(d) == WithoutId(d.records, d.id)

\* if (selectedRecord?.id === id) setSelectedRecord(null), with the handler's
\* selectedRecord
SelectionAfterDelete(d) ==
    IF d.selectedRecord = <<d.id>> THEN <<>> ELSE selectedRecord

\* deleteRecord from the settling of its delete: done ("ok"), or an error,
\* which is an Error object or is none.
DeleteResponds(d, o) ==
    /\ d \in pendingDeletes
    /\ pendingDeletes' = pendingDeletes \ {d}
    /\ IF o.kind = "ok"
       THEN /\ store' = WithoutId(store, d.id)
            /\ records' = RecordsAfterDelete(d)
            /\ selectedRecord' = SelectionAfterDelete(d)
            /\ lastOp' = "deleted"
            /\ UNCHANGED historyError
       ELSE /\ historyError' = StoreErrorMessage(o.isError, "Failed to delete record")
            /\ lastOp' = "deleteFailed"
            /\ UNCHANGED <<store, records, selectedRecord>>
    /\ UNCHANGED <<isLoading, historyCopied, fetchPending, historyWrites,
                   historyTimers>>
    /\ UNCHANGED <<signupVars, mainVars, clipboard, copyLog, now>>

\* copyToClipboard of the History Screen up to its await, from one of the two
\* copy buttons of the detail view
HistoryCopyClick(kind) ==
    /\ selectedRecord # <<>>
    /\ Len(historyWrites) < MaxWrites
    /\ historyWrites' = Append(historyWrites,
          [text |-> RecordText(kind, selectedRecord[1]),
           id |-> CopyKey(kind, selectedRecord[1])])
    /\ lastOp' = "copyClick"
    /\ UNCHANGED <<records, isLoading, historyError, historyCopied, selectedRecord,
                   store, fetchPending, pendingDeletes, historyTimers>>
    /\ UNCHANGED <<signupVars, mainVars, clipboard, copyLog, now>>

\* copyToClipboard of the History Screen from the settling of writeText
HistoryCopyWriteDone(ok) ==
    /\ historyWrites # <<>>
    /\ historyWrites' = Tail(historyWrites)
    /\ IF ok
       THEN /\ clipboard' = <<Head(historyWrites).text>>
            /\ historyCopied' = Head(historyWrites).id
            /\ historyTimers' = historyTimers \cup {now + CopiedTimeout}
            /\ copyLog' = LogCopy(Head(historyWrites).id)
            /\ lastOp' = "copied"
            /\ UNCHANGED historyError
       ELSE /\ historyError' = CopyFailedMessage
            /\ lastOp' = "copyFailed"
            /\ UNCHANGED <<clipboard, historyCopied, historyTimers, copyLog>>
    /\ UNCHANGED <<records, isLoading, selectedRecord, store, fetchPending,
                   pendingDeletes>>
    /\ UNCHANGED <<signupVars, mainVars, now>>

\* () => setCopied(null), run by a timeout that is due
HistoryCopiedTimeoutFires ==
    /\ \E t \in historyTimers :
          /\ t <= now
          /\ historyTimers' = historyTimers \ {t}
    /\ historyCopied' = <<>>
    /\ lastOp' = "copiedTimeout"
    /\ UNCHANGED <<records, isLoading, historyError, selectedRecord, store,
                   fetchPending, pendingDeletes, historyWrites>>
    /\ UNCHANGED <<signupVars, mainVars, clipboard, copyLog, now>>

----------------------------------------------------------------------------
(* Signup Page *)

AllFieldsRequired == "All fields are required"
PasswordsDoNotMatch == "Passwords do not match"
PasswordTooShort == "Password must be at least 6 characters"
AccountCreated == "Account created! You can now sign in."
SignupFailed == "Signup failed"

\* password.length < 6
MinPasswordLength == 6

\* The three checks of handleSignup before signUp: the message of the first
\* one that fails, if one fails.
SignupValidationAnyLength ==
    IF IsBlank(email) \/ IsBlank(password) \/ IsBlank(confirmPassword)
    THEN <<AllFieldsRequired>>
    ELSE IF password # confirmPassword
    THEN <<PasswordsDoNotMatch>>
    ELSE <<>>

SignupValidation ==
    IF IsBlank(email) \/ IsBlank(password) \/ IsBlank(confirmPassword)
    THEN <<AllFieldsRequired>>
    ELSE IF password # confirmPassword
    THEN <<PasswordsDoNotMatch>>
    ELSE IF Len(password) < MinPasswordLength
    THEN <<PasswordTooShort>>
    ELSE <<>>

\* err instanceof Error ? err.message : 'Signup failed'
CaughtSignupMessage(thrown) ==
    IF thrown.isError THEN thrown.message ELSE SignupFailed

\* <input type="email" value={email} onChange=...>
EditEmail(v) ==
    /\ v # email
    /\ email' = v
    /\ lastOp' = "editEmail"
    /\ UNCHANGED <<password, confirmPassword, signupError, success, signupLoading,
                   signUpPending, signUpCalls, switchTimers>>
    /\ UNCHANGED <<mainVars, historyVars, clipboard, copyLog, now>>

\* <input value={password} onChange=...>
EditPassword(v) ==
    /\ v # password
    /\ password' = v
    /\ lastOp' = "editPassword"
    /\ UNCHANGED <<email, confirmPassword, signupError, success, signupLoading,
                   signUpPending, signUpCalls, switchTimers>>
    /\ UNCHANGED <<mainVars, historyVars, clipboard, copyLog, now>>

\* <input value={confirmPassword} onChange=...>
EditConfirmPassword(v) ==
    /\ v # confirmPassword
    /\ confirmPassword' = v
    /\ lastOp' = "editConfirm"
    /\ UNCHANGED <<email, password, signupError, success, signupLoading,
                   signUpPending, signUpCalls, switchTimers>>
    /\ UNCHANGED <<mainVars, historyVars, clipboard, copyLog, now>>

\* handleSignup up to its await, or to its end when a check fails (the finally
\* block then runs in the same step); the submit button is disabled while
\* isLoading.
HandleSignup ==
    /\ ~signupLoading
    /\ signUpCalls < MaxSignUps
    /\ success' = ""
    /\ lastOp' = "signupSubmit"
    /\ IF SignupValidation # <<>>
       THEN /\ signupError' = SignupValidation[1]
            /\ signupLoading' = FALSE
            /\ UNCHANGED <<signUpPending, signUpCalls>>
       ELSE /\ signupError' = ""
            /\ signupLoading' = TRUE
            /\ signUpPending' = <<[email |-> email, password |-> password]>>
            /\ signUpCalls' = signUpCalls + 1
    /\ UNCHANGED <<email, password, confirmPassword, switchTimers>>
    /\ UNCHANGED <<mainVars, historyVars, clipboard, copyLog, now>>

\* handleSignup from the settling of signUp: it resolves (o.kind = "ok") or
\* rejects with o.thrown.
SignUpResponds(o) ==
    /\ signUpPending # <<>>
    /\ signUpPending' = <<>>
    /\ signupLoading' = FALSE
    /\ IF o.kind = "ok"
       THEN /\ success' = AccountCreated
            /\ email' = <<>>
            /\ password' = <<>>
            /\ confirmPassword' = <<>>
            /\ switchTimers' = switchTimers + 1
            /\ lastOp' = "signedUp"
            /\ UNCHANGED signupError
       ELSE /\ signupError' = CaughtSignupMessage(o.thrown)
            /\ lastOp' = "signUpFailed"
            /\ UNCHANGED <<success, email, password, confirmPassword, switchTimers>>
    /\ UNCHANGED signUpCalls
    /\ UNCHANGED <<mainVars, historyVars, clipboard, copyLog, now>>

\* () => onSwitchToLogin(), run by its timeout; what the parent does with it is
\* not part of the page.
SwitchToLoginFires ==
    /\ switchTimers > 0
    /\ switchTimers' = switchTimers - 1
    /\ lastOp' = "switchToLogin"
    /\ UNCHANGED <<email, password, confirmPassword, signupError, success,
                   signupLoading, signUpPending, signUpCalls>>
    /\ UNCHANGED <<mainVars, historyVars, clipboard, copyLog, now>>

----------------------------------------------------------------------------
(* Initial states *)

\* The Main Capture Screen after its first render and effect: the browser
\* either has a speech recognition API or has none.
MainInit ==
    /\ hasRecognition \in BOOLEAN
    /\ error = IF hasRecognition THEN "" ELSE NotSupportedMessage
    /\ isListening = FALSE
    /\ transcript = <<>>
    /\ geminiResponse = ""
    /\ isProcessing = FALSE
    /\ copied = FALSE
    /\ geminiApiKey = <<>>
    /\ customPrompt = <<>>
    /\ recState = "idle"
    /\ event = <<>>
    /\ request = <<>>
    /\ pendingInsert = <<>>
    /\ genCalls = 0
    /\ insertCalls = 0
    /\ pendingWrite = <<>>
    /\ timers = {}

\* The History Screen not mounted.
HistoryIdle ==
    /\ records = <<>>
    /\ isLoading = TRUE
    /\ historyError = ""
    /\ historyCopied = <<>>
    /\ selectedRecord = <<>>
    /\ store = <<>>
    /\ fetchPending = FALSE
    /\ pendingDeletes = {}
    /\ historyWrites = <<>>
    /\ historyTimers = {}

\* The Main Capture Screen not mounted.
MainIdle ==
    /\ hasRecognition = FALSE
    /\ error = ""
    /\ isListening = FALSE
    /\ transcript = <<>>
    /\ geminiResponse = ""
    /\ isProcessing = FALSE
    /\ copied = FALSE
    /\ geminiApiKey = <<>>
    /\ customPrompt = <<>>
    /\ recState = "idle"
    /\ event = <<>>
    /\ request = <<>>
    /\ pendingInsert = <<>>
    /\ genCalls = 0
    /\ insertCalls = 0
    /\ pendingWrite = <<>>
    /\ timers = {}

\* The ids n, n-1, ..., 1: n records, newest first.
NewestFirst(n) == [i \in 1..n |-> n + 1 - i]

\* What the store can hold when the History Screen mounts.
StoreContents == { NewestFirst(n) : n \in 0..MaxRecords }

\* The History Screen after its first render and effect: fetchRecords has
\* sent its select.
HistoryInit ==
    /\ records = <<>>
    /\ isLoading = TRUE
    /\ historyError = ""
    /\ historyCopied = <<>>
    /\ selectedRecord = <<>>
    /\ store \in StoreContents
    /\ fetchPending = TRUE
    /\ pendingDeletes = {}
    /\ historyWrites = <<>>
    /\ historyTimers = {}

\* The Signup Page after its first render (also its state while not mounted).
SignupInit ==
    /\ email = <<>>
    /\ password = <<>>
    /\ confirmPassword = <<>>
    /\ signupError = ""
    /\ success = ""
    /\ signupLoading = FALSE
    /\ signUpPending = <<>>
    /\ signUpCalls = 0
    /\ switchTimers = 0

Init ==
    /\ MainInit
    /\ HistoryIdle
    /\ SignupInit
    /\ clipboard = <<>>
    /\ copyLog = <<>>
    /\ now = 0
    /\ lastOp = "mount"

InitHistory ==
    /\ MainIdle
    /\ HistoryInit
    /\ SignupInit
    /\ clipboard = <<>>
    /\ copyLog = <<>>
    /\ now = 0
    /\ lastOp = "mount"

InitSignup ==
    /\ MainIdle
    /\ HistoryIdle
    /\ SignupInit
    /\ clipboard = <<>>
    /\ copyLog = <<>>
    /\ now = 0
    /\ lastOp = "mount"

----------------------------------------------------------------------------
(* Inputs *)

\* What the user types into the transcript, the custom prompt and the key.
TypedTranscripts == {<<>>, <<" ">>, <<"a">>}
TypedPrompts == {<<>>, <<" ">>, <<"p">>}
TypedKeys == {<<>>, <<" ">>, <<"k">>}

\* The result entries the recognizer reports: final or interim, each with its
\* alternatives, best first.
ResultEntries ==
    { [isFinal |-> TRUE,  alts |-> << <<"a">>, <<"b">> >>],
      [isFinal |-> FALSE, alts |-> << <<"b">> >>],
      [isFinal |-> TRUE,  alts |-> << <<>> >>] }

ResultLists == UNION { [1..n -> ResultEntries] : n \in 1..MaxResults }

\* Every event: a results list and the index of its first changed entry.
ResultEvents ==
    UNION { { [results |-> rs, resultIndex |-> i] : i \in 0..(Len(rs) - 1) } :
            rs \in ResultLists }

\* The one event of the runs that are about the Analyze action: an interim
\* entry followed by a final one.
SpokenEvents ==
    { [results |-> << [isFinal |-> FALSE, alts |-> << <<"b">> >>],
                      [isFinal |-> TRUE,  alts |-> << <<"a">>, <<"b">> >>] >>,
       resultIndex |-> 0] }

\* SpeechRecognitionErrorEvent.error
ErrorCodes == {"no-speech", "network"}

\* How the generation call can settle: fetch rejects; a non-success status
\* with an error envelope (with or without a message) or with a body that is
\* not JSON; a success status with a candidate text, without one, or with a
\* body that is not JSON.
GenerationOutcomes ==
    { [kind |-> "reject", body |-> <<>>],
      [kind |-> "status", body |-> <<>>],
      [kind |-> "status", body |-> <<"">>],
      [kind |-> "status", body |-> <<"API key not valid">>],
      [kind |-> "status_badjson", body |-> <<>>],
      [kind |-> "ok", body |-> <<>>],
      [kind |-> "ok", body |-> <<"">>],
      [kind |-> "ok", body |-> <<"Summary: ...">>],
      [kind |-> "ok_badjson", body |-> <<>>] }

InsertOutcomes == {"ok", "error", "reject"}

\* The outcomes of the runs that are about the copy action: the analysis
\* succeeds and is stored.
GoodGeneration == { [kind |-> "ok", body |-> <<"Summary: ...">>] }

\* How a select can settle.
FetchOutcomes ==
    { [kind |-> "rows", isError |-> FALSE],
      [kind |-> "null", isError |-> FALSE],
      [kind |-> "error", isError |-> TRUE],
      [kind |-> "error", isError |-> FALSE] }

\* How a delete can settle.
DeleteOutcomes ==
    { [kind |-> "ok", isError |-> FALSE],
      [kind |-> "error", isError |-> TRUE],
      [kind |-> "error", isError |-> FALSE] }

RecordIds == 1..MaxRecords

CopyKinds == {"transcript", "response"}

\* What the user types into the email field (an input of type email holds no
\* surrounding white space) and into the two password fields: nothing, white
\* space, five characters, six characters, six other characters.
TypedEmails == {<<>>, <<"e">>}

TypedPasswords ==
    { <<>>,
      <<" ", " ", " ", " ", " ", " ">>,
      <<"a", "b", "c", "d", "e">>,
      <<"a", "b", "c", "d", "e", "f">>,
      <<"a", "b", "c", "d", "e", "g">> }

\* How signUp can settle: it resolves, rejects with an Error, or rejects with
\* something that is not an Error.
SignUpOutcomes ==
    { [kind |-> "ok", thrown |-> ErrorOf("")],
      [kind |-> "reject", thrown |-> ErrorOf("User already registered")],
      [kind |-> "reject", thrown |-> [isError |-> FALSE, message |-> ""]] }

----------------------------------------------------------------------------
(* Specifications *)

\* The Main Capture Screen with its Analyze action.
Next ==
    \/ \E v \in TypedTranscripts : EditTranscript(v)
    \/ \E v \in TypedPrompts : EditCustomPrompt(v)
    \/ \E v \in TypedKeys : EditApiKey(v)
    \/ ToggleListening
    \/ \E e \in SpokenEvents : OnResult(e)
    \/ AnalyzeClick
    \/ \E o \in GenerationOutcomes : GenerationResponds(o)
    \/ \E o \in InsertOutcomes : InsertResponds(o)
    \/ ClearAll

Spec == Init /\ [][Next]_vars

\* The Main Capture Screen with its Speech Capture Adapter.
CaptureNext ==
    \/ \E v \in TypedTranscripts : EditTranscript(v)
    \/ ToggleListening
    \/ \E e \in ResultEvents : OnResult(e)
    \/ \E c \in ErrorCodes : OnError(c)
    \/ OnEnd
    \/ ClearAll

SpecCapture == Init /\ [][CaptureNext]_vars

\* The Main Capture Screen with its Copy action and the clock.
CopyNext ==
    \/ EditTranscript(<<"a">>)
    \/ EditApiKey(<<"k">>)
    \/ AnalyzeClick
    \/ \E o \in GoodGeneration : GenerationResponds(o)
    \/ InsertResponds("ok")
    \/ ClearAll
    \/ CopyClick
    \/ \E ok \in BOOLEAN : CopyWriteDone(ok)
    \/ CopiedTimeoutFires
    \/ Tick

SpecCopy == Init /\ [][CopyNext]_vars

\* The Main Capture Screen with all of its operations, on small inputs and
\* with the clock standing still.
ScreenNext ==
    \/ EditTranscript(<<"a">>)
    \/ EditCustomPrompt(<<"p">>)
    \/ EditApiKey(<<"k">>)
    \/ ToggleListening
    \/ \E e \in SpokenEvents : OnResult(e)
    \/ OnError("no-speech")
    \/ OnEnd
    \/ AnalyzeClick
    \/ \E o \in GoodGeneration : GenerationResponds(o)
    \/ InsertResponds("ok")
    \/ ClearAll
    \/ CopyClick
    \/ \E ok \in BOOLEAN : CopyWriteDone(ok)

SpecScreen == Init /\ [][ScreenNext]_vars

\* The History Screen with its list, its detail view and its Delete action.
HistoryNext ==
    \/ \E o \in FetchOutcomes : FetchResponds(o)
    \/ \E id \in RecordIds : SelectRecord(id)
    \/ BackToList
    \/ \E id \in RecordIds : DeleteClick(id)
    \/ \E d \in pendingDeletes, o \in DeleteOutcomes : DeleteResponds(d, o)

SpecHistory == InitHistory /\ [][HistoryNext]_vars

\* The History Screen with its Copy actions and the clock.
HistoryCopyNext ==
    \/ \E o \in FetchOutcomes : FetchResponds(o)
    \/ \E id \in RecordIds : SelectRecord(id)
    \/ BackToList
    \/ \E kind \in CopyKinds : HistoryCopyClick(kind)
    \/ \E ok \in BOOLEAN : HistoryCopyWriteDone(ok)
    \/ HistoryCopiedTimeoutFires
    \/ Tick

SpecHistoryCopy == InitHistory /\ [][HistoryCopyNext]_vars

\* The Signup Page.
SignupNext ==
    \/ \E v \in TypedEmails : EditEmail(v)
    \/ \E v \in TypedPasswords : EditPassword(v)
    \/ \E v \in TypedPasswords : EditConfirmPassword(v)
    \/ HandleSignup
    \/ \E o \in SignUpOutcomes : SignUpResponds(o)
    \/ SwitchToLoginFires

SpecSignup == InitSignup /\ [][SignupNext]_vars

----------------------------------------------------------------------------
(* Claims about the Speech Capture Adapter *)

IsFinalEntry(r) == r.isFinal

\* The entries an event's handler scans that are marked final, in order.
FinalEntries(e) ==
    SelectSeq(SubSeq(e.results, e.resultIndex + 1, Len(e.results)), IsFinalEntry)

\* The top candidate of each entry followed by one space, concatenated.
RECURSIVE JoinTopCandidates(_)
JoinTopCandidates(entries) ==
    IF entries = <<>>
    THEN <<>>
    ELSE Head(entries).alts[1] \o <<" ">> \o JoinTopCandidates(Tail(entries))

IsSuffix(t, s) ==
    /\ Len(t) <= Len(s)
    /\ SubSeq(s, Len(s) - Len(t) + 1, Len(s)) = t

\* C1: every recognition result event appends to the transcript exactly the
\* top candidate of each scanned entry marked final (the entries from
\* resultIndex on), in order, each followed by one space, and nothing of an
\* interim entry; so a sequence of events appends them in arrival order.
C1_FinalsAppended ==
    [][lastOp' = "onresult" =>
          transcript' = transcript \o JoinTopCandidates(FinalEntries(event'[1]))]_vars

\* C1, witness: an event whose scanned entries are an interim one and a final
\* one, both with text, handled on a transcript that already held text.
C1_Witness ==
    /\ lastOp = "onresult"
    /\ event # <<>>
    /\ LET e == event[1]
           scanned == (e.resultIndex + 1)..Len(e.results)
       IN /\ \E i \in scanned : ~e.results[i].isFinal /\ e.results[i].alts[1] # <<>>
          /\ \E i \in scanned : e.results[i].isFinal /\ e.results[i].alts[1] # <<>>
          /\ IsSuffix(JoinTopCandidates(FinalEntries(e)), transcript)
          /\ Len(transcript) > Len(JoinTopCandidates(FinalEntries(e)))

----------------------------------------------------------------------------
(* Claims about the Analyze action *)

NoNetworkCall ==
    /\ genCalls' = genCalls
    /\ insertCalls' = insertCalls
    /\ request' = request
    /\ pendingInsert' = pendingInsert

\* C2 as stated: an Analyze action on a blank transcript issues no network
\* call and sets the error to "Please record some speech first"; on a
\* transcript that is not blank with a blank API key it issues no network call
\* and sets the error to "Please enter your Gemini API key".
C2_AsStated ==
    [][AnalyzeClick =>
          /\ IsBlank(transcript) =>
                NoNetworkCall /\ error' = RecordFirstMessage
          /\ ~IsBlank(transcript) /\ IsBlank(geminiApiKey) =>
                NoNetworkCall /\ error' = EnterKeyMessage]_vars

\* C2, amended: an Analyze action on a blank transcript issues no network call
\* and changes nothing on screen, whatever the API key is, because the control
\* is disabled; no step ever sets the error to "Please record some speech
\* first".  On a transcript that is not blank, with no request in flight and a
\* blank API key, it issues no network call and sets the error to "Please
\* enter your Gemini API key".
C2_AnalyzeValidation ==
    [][/\ error' # RecordFirstMessage
       /\ AnalyzeClick =>
             /\ IsBlank(transcript) =>
                   /\ NoNetworkCall
                   /\ UNCHANGED <<error, isProcessing, geminiResponse>>
             /\ ~IsBlank(transcript) /\ ~isProcessing /\ IsBlank(geminiApiKey) =>
                   /\ NoNetworkCall
                   /\ error' = EnterKeyMessage
                   /\ UNCHANGED <<isProcessing, geminiResponse>>]_vars

\* C2, witness: an Analyze click on a transcript of white space, which left in
\* place the message an earlier click with a blank API key had set.
C2_Witness ==
    /\ lastOp = "analyze"
    /\ transcript = <<" ">>
    /\ IsBlank(geminiApiKey)
    /\ error = EnterKeyMessage
    /\ genCalls = 0

\* The step of an Analyze click that sends a generation request.
SendsRequest == AnalyzeClick /\ request = <<>> /\ request' # <<>>

HasVisibleCharacter(s) == \E i \in 1..Len(s) : s[i] \notin Whitespace

\* C3 as stated: the request text is the custom prompt, two newlines and the
\* transcript whenever the custom prompt is not empty, and the default
\* instruction followed by the transcript whenever it is empty.
C3_AsStated ==
    [][SendsRequest =>
          request'[1].text =
             IF customPrompt # <<>>
             THEN customPrompt \o <<"\n", "\n">> \o transcript
             ELSE <<DefaultInstruction, "\n", "\n">> \o transcript]_vars

\* C3, amended: the request text is the custom prompt (as typed), two newlines
\* and the transcript whenever the custom prompt has a character that is not
\* white space, and the default instruction followed by the transcript
\* whenever the custom prompt is empty or all white space.
C3_RequestText ==
    [][SendsRequest =>
          /\ HasVisibleCharacter(customPrompt) =>
                request'[1].text = customPrompt \o <<"\n", "\n">> \o transcript
          /\ ~HasVisibleCharacter(customPrompt) =>
                request'[1].text = <<DefaultInstruction, "\n", "\n">> \o transcript]_vars

\* C3, witness: a request sent while the custom prompt was all white space.
C3_Witness ==
    /\ lastOp = "analyze"
    /\ request # <<>>
    /\ customPrompt = <<" ">>
    /\ request[1].text = <<DefaultInstruction, "\n", "\n">> \o request[1].transcript

\* What the success step of a generation call with candidate text T does
\* according to C4: T is displayed and one insert of T with the transcript
\* sent in the request is issued.
DisplaysAndStores(T) ==
    /\ geminiResponse' = T
    /\ insertCalls' = insertCalls + 1
    /\ pendingInsert' = << [transcript |-> request[1].transcript, gemini_response |-> T] >>
    /\ IsSuffix(request[1].transcript, request[1].text)

\* C4 as stated: for every candidate text T of a successful response.
C4_AsStated ==
    [][\A o \in GenerationOutcomes :
          (o.kind = "ok" /\ o.body # <<>> /\ GenerationResponds(o))
             => DisplaysAndStores(o.body[1])]_vars

\* C4, amended: for every candidate text T that is not empty (an empty one is
\* replaced by "No response generated", like an absent one).
C4_ResponseStored ==
    [][\A o \in GenerationOutcomes :
          (o.kind = "ok" /\ o.body # <<>> /\ GenerationResponds(o))
             => IF o.body[1] # ""
                THEN DisplaysAndStores(o.body[1])
                ELSE DisplaysAndStores(NoResponseGenerated)]_vars

\* C4, witness: the response is displayed and its insert is in flight with the
\* transcript of the request, while the transcript on screen is another one.
C4_Witness ==
    /\ lastOp = "generationSucceeded"
    /\ geminiResponse = "Summary: ..."
    /\ pendingInsert = << [transcript |-> <<"a">>, gemini_response |-> "Summary: ..."] >>
    /\ transcript = <<"a", "a", " ">>

\* C5: when the insert fails after a successful generation, by a returned
\* error or by an exception, the response stays displayed and an error is
\* shown.
C5_InsertFailureShown ==
    [][\A o \in {"error", "reject"} :
          InsertResponds(o) => geminiResponse' = geminiResponse /\ error' # ""]_vars

----------------------------------------------------------------------------
(* Claims about the History Screen and the Copy actions *)

\* C7: a successful delete of record X removes X, and nothing else, from the
\* displayed list, dismisses the detail view if it shows X and leaves it
\* alone if it shows another record; a failed delete changes neither.
C7_DeleteRemovesExactly ==
    [][\A d \in pendingDeletes : \A o \in DeleteOutcomes :
          DeleteResponds(d, o) =>
             IF o.kind = "ok"
             THEN /\ records' = WithoutId(records, d.id)
                  /\ selectedRecord' =
                        IF selectedRecord = <<d.id>> THEN <<>> ELSE selectedRecord
             ELSE /\ records' = records
                  /\ selectedRecord' = selectedRecord]_vars

\* C8: every successful copy sets the confirmation, and a timeout takes a
\* confirmation down exactly 2000 ms after the copy that set it: the last
\* successful copy.
C8_RevertsAfter2000 ==
    [][/\ lastOp' = "copied" => copied'
       /\ (lastOp' = "copiedTimeout" /\ copied /\ ~copied')
             => now = copyLog[Len(copyLog)].at + CopiedTimeout]_vars

\* C9: on the History Screen the confirmation of every item copied less than
\* 2000 ms ago is shown, whatever else was copied since.
C9_IndependentConfirmations ==
    \A i \in 1..Len(copyLog) :
       now < copyLog[i].at + CopiedTimeout => historyCopied = copyLog[i].key

\* What the list view of the History Screen shows.
LoadingShown == isLoading
EmptyShown == ~isLoading /\ records = <<>>
ErrorShown == historyError # ""

\* C10: in the list view at most one of the loading indicator, the empty-list
\* message and the error banner is shown.
C10_ExclusiveModes ==
    selectedRecord = <<>> =>
       /\ ~(LoadingShown /\ EmptyShown)
       /\ ~(LoadingShown /\ ErrorShown)
       /\ ~(EmptyShown /\ ErrorShown)

----------------------------------------------------------------------------
(* Claims about the listening state machine and the Clear action *)

\* C11: the listening flag changes from idle to listening only on a toggle
\* with a recognition object, and from listening to idle only on a toggle, an
\* error event or an end event; a toggle while listening, an error event and an
\* end event all leave the flag idle; no other operation changes the flag; and
\* error and end events leave the transcript as it was.
C11_ListeningTransitions ==
    [][/\ (~isListening /\ isListening') =>
             lastOp' = "toggle" /\ hasRecognition
       /\ (isListening /\ ~isListening') =>
             lastOp' \in {"toggle", "onerror", "onend"}
       /\ (isListening /\ lastOp' \in {"toggle", "onerror", "onend"}) =>
             ~isListening'
       /\ lastOp' \in {"onerror", "onend"} =>
             ~isListening' /\ transcript' = transcript]_vars

\* C11, witness: an error event has ended a capture that had put words into
\* the transcript, after an analysis and a copy that left the flag alone.
C11_Witness ==
    /\ lastOp = "onerror"
    /\ ~isListening
    /\ transcript # <<>>
    /\ event # <<>>
    /\ genCalls > 0
    /\ clipboard # <<>>

\* C12: the Clear action empties the transcript, the displayed response, the
\* error and the custom prompt and sets the copied flag to false; it leaves the
\* listening flag, the recognizer, the API key and the processing flag as they
\* were, issues no network call, and changes nothing else.
C12_ClearFrame ==
    [][lastOp' = "clear" =>
          /\ transcript' = <<>>
          /\ geminiResponse' = ""
          /\ error' = ""
          /\ customPrompt' = <<>>
          /\ copied' = FALSE
          /\ UNCHANGED <<isListening, recState, hasRecognition, geminiApiKey,
                         isProcessing>>
          /\ NoNetworkCall
          /\ UNCHANGED <<event, pendingWrite, timers, clipboard, historyVars>>]_vars

\* C12, witness: Clear was pressed during a capture, with an analysis in
\* flight, a key entered and the timeout of a successful copy pending.
C12_Witness ==
    /\ lastOp = "clear"
    /\ isListening
    /\ PlatformCapturing
    /\ isProcessing
    /\ request # <<>>
    /\ geminiApiKey # <<>>
    /\ timers # {}
    /\ transcript = <<>> /\ geminiResponse = "" /\ error = ""
    /\ customPrompt = <<>> /\ ~copied

\* C18: whenever no end event of the recognizer is still to be delivered, the
\* listening flag is true exactly when the platform is capturing.
C18_FlagAgreesWithPlatform ==
    ~EndEventPending => (isListening <=> PlatformCapturing)

----------------------------------------------------------------------------
(* Claims about the requests of the Main Capture Screen *)

\* C13: every store insert the Main Capture Screen issues carries a transcript
\* that is not empty and a gemini_response that is not empty, and an insert of
\* one new record is the only store operation the screen issues.
C13_InsertsNonEmpty ==
    [][(insertCalls' # insertCalls \/ (pendingInsert' # pendingInsert /\ pendingInsert' # <<>>)) =>
          /\ insertCalls' = insertCalls + 1
          /\ pendingInsert = <<>>
          /\ Len(pendingInsert') = 1
          /\ pendingInsert'[1].transcript # <<>>
          /\ pendingInsert'[1].gemini_response # ""]_vars

\* C13, witness: an insert is in flight for a response that came without a
\* text, issued after the transcript on screen had been emptied.
C13_Witness ==
    /\ pendingInsert # <<>>
    /\ pendingInsert[1].gemini_response = NoResponseGenerated
    /\ pendingInsert[1].transcript # <<>>
    /\ transcript = <<>>
    /\ lastOp = "generationSucceeded"

\* The handler of an Analyze click has not finished: its generation request
\* or the store insert that follows a success is in flight.
AnalysisInFlight == request # <<>> \/ pendingInsert # <<>>

\* C14 as stated: a generation request is sent only when none is in flight;
\* while one is in flight the Analyze control is disabled; and once it has
\* completed the processing flag is false and the control is enabled whenever
\* the transcript is not empty.
C14_AsStated ==
    [][/\ genCalls' # genCalls => request = <<>>
       /\ request' # <<>> => AnalyzeDisabled'
       /\ (request # <<>> /\ request' = <<>>) =>
             /\ ~isProcessing'
             /\ transcript' # <<>> => ~AnalyzeDisabled']_vars

\* C14, amended: a generation request is sent only when no request and no
\* insert is in flight, one at a time; while a request or the insert that
\* follows it is in flight the processing flag is true and the Analyze control
\* is disabled; and whenever neither is in flight the processing flag is false
\* and the control is enabled exactly when the transcript has a character that
\* is not white space.
C14_OneRequestInFlight ==
    [][/\ genCalls' # genCalls =>
             /\ ~AnalysisInFlight /\ ~isProcessing
             /\ genCalls' = genCalls + 1
             /\ Len(request') = 1
       /\ AnalysisInFlight' => isProcessing' /\ AnalyzeDisabled'
       /\ ~AnalysisInFlight' =>
             /\ ~isProcessing'
             /\ AnalyzeDisabled' <=> ~HasVisibleCharacter(transcript')]_vars

\* C14, witness: the second request has just been sent, after the first one
\* and its insert had completed.
C14_Witness ==
    /\ lastOp = "analyze"
    /\ genCalls = 2
    /\ insertCalls = 1
    /\ request # <<>>
    /\ pendingInsert = <<>>
    /\ isProcessing
    /\ AnalyzeDisabled

----------------------------------------------------------------------------
(* Claims about the errors and the deletes of the History Screen *)

\* if (selectedRecord) return <detail view>: the detail view replaces the list
\* view, and with it the error banner, which only the list view renders.
DetailShown == selectedRecord # <<>>

ErrorDisplayed == ~DetailShown /\ ErrorShown

\* C15: when a fetch or a delete of the History Screen fails, its error
\* message is set and is displayed on screen, also when the record detail view
\* is open.
C15_ErrorsDisplayed ==
    [][lastOp' \in {"fetchFailed", "deleteFailed"} =>
          historyError' # "" /\ ErrorDisplayed']_vars

\* The record with this id is in the store: no delete of it has succeeded.
InStore(id) == \E j \in 1..Len(store) : store[j] = id

\* C17: once every delete in flight has completed, also when deletes of
\* different records were in flight together, the displayed list holds no
\* record that was deleted from the store.
C17_ConcurrentDeletes ==
    pendingDeletes = {} => \A i \in 1..Len(records) : InStore(records[i])

----------------------------------------------------------------------------
(* Claims about the Signup Page *)

SignupFieldsFilled ==
    /\ HasVisibleCharacter(email)
    /\ HasVisibleCharacter(password)
    /\ HasVisibleCharacter(confirmPassword)

\* C16: the signup handler calls signUp, once and with the email and the
\* password, only when the three fields are not blank, the password equals the
\* confirmation and the password has at least 6 characters; otherwise it calls
\* nothing and sets "All fields are required", else "Passwords do not match",
\* else "Password must be at least 6 characters"; and whenever no signUp call
\* is in flight, the handler having finished, the loading flag is false.
C16_SignupValidation ==
    [][/\ signUpCalls' # signUpCalls =>
             /\ lastOp' = "signupSubmit"
             /\ SignupFieldsFilled
             /\ password = confirmPassword
             /\ Len(password) >= 6
             /\ signUpCalls' = signUpCalls + 1
             /\ signUpPending' = <<[email |-> email, password |-> password]>>
       /\ lastOp' = "signupSubmit" =>
             IF ~SignupFieldsFilled
             THEN signUpCalls' = signUpCalls /\ signupError' = "All fields are required"
             ELSE IF password # confirmPassword
             THEN signUpCalls' = signUpCalls /\ signupError' = "Passwords do not match"
             ELSE IF Len(password) < 6
             THEN /\ signUpCalls' = signUpCalls
                  /\ signupError' = "Password must be at least 6 characters"
             ELSE signUpCalls' = signUpCalls + 1
       /\ signUpPending' = <<>> => ~signupLoading'
       /\ signUpPending' # <<>> => signupLoading']_vars

\* C16, witness: after a signUp call that failed, a submit with a password of
\* five characters, repeated in the confirmation, has set the third message.
C16_Witness ==
    /\ lastOp = "signupSubmit"
    /\ signUpCalls = 1
    /\ signUpPending = <<>>
    /\ Len(password) = 5
    /\ password = confirmPassword
    /\ signupError = PasswordTooShort
    /\ ~signupLoading

====
